---------------------------- MODULE Spec2Model ----------------------------
(***************************************************************************)
(* Verification model of RL_based_SDC.py: the kinematic Car, the geometry  *)
(* kernel (crossing / cal_crosspoint / is_online), MAP.is_collision,       *)
(* LiDAR.make_line, the episode rollout, update_policy and the training    *)
(* loop.                                                                   *)
(*                                                                         *)
(* Number model.  The program computes in floating point.  Here every      *)
(* number is an exact rational <<n, d>> (d > 0, lowest terms) or an        *)
(* integer; the 1e-5 tolerances of is_online are kept as the rational      *)
(* 1/100000.  Headings are whole quarter turns, so cos and sin are the     *)
(* exact values -1, 0, 1, and time is counted in ticks of one dt.          *)
(***************************************************************************)
EXTENDS Integers, Sequences, FiniteSets, TLC

VARIABLES
    pc,            \* control position of the running code
    line1, line2,  \* arguments of crossing()
    crossRes,      \* value returned by crossing(): [flag, point]
    car,           \* the Car object (params, histories, dpos, distances)
    Map,           \* MAP.lines: the sequence of wall segments
    lidar,         \* the LiDAR object bound to car
    reading,       \* what LiDAR.make_line returned (or raised)
    model,         \* the policy network, as the set of outputs it can give
    max_number_of_steps,   \* the step budget of an episode
    epi,           \* the locals of episode(): experiences, done, step, ...
    train,         \* the training loop: epoch, m, rewards, policies, steps
    opt,           \* the optimizer: steps taken, accumulated gradient
    upd            \* the locals of the running update_policy call

geomVars == <<line1, line2, crossRes>>
lidarVars == <<lidar, reading>>
episodeVars == <<model, max_number_of_steps, epi>>
trainVars == <<train, opt, upd>>
vars == <<pc, line1, line2, crossRes, car, Map, lidar, reading,
          model, max_number_of_steps, epi, train, opt, upd>>

(***************************************************************************)
(* Exact rational arithmetic                                               *)
(***************************************************************************)
\* With(v, F) is F(v) with v evaluated once, before F is applied
With(v, F(_)) == CHOOSE r \in {F(x) : x \in {v}} : TRUE

Abs(i) == IF i < 0 THEN -i ELSE i
Sgn(i) == IF i < 0 THEN -1 ELSE IF i = 0 THEN 0 ELSE 1

RECURSIVE GCD(_, _)
GCD(a0, b0) ==
    With(<<a0, b0>>, LAMBDA p :
        IF p[2] = 0 THEN p[1]
        ELSE IF p[2] = 1 THEN 1
        ELSE GCD(p[2], p[1] % p[2]))

Norm(n0, d0) ==
    With(<<n0, d0>>, LAMBDA p :
        IF p[2] = 1 THEN p
        ELSE With(GCD(Abs(p[1]), Abs(p[2])), LAMBDA g :
            IF p[2] < 0 THEN <<(-p[1]) \div g, (-p[2]) \div g>>
            ELSE <<p[1] \div g, p[2] \div g>>))

R(i) == <<i, 1>>
RNeg(a0) == With(a0, LAMBDA a : <<-a[1], a[2]>>)
RAdd(a0, b0) ==
    With(<<a0, b0>>, LAMBDA p :
        IF p[1][2] = 1 /\ p[2][2] = 1 THEN <<p[1][1] + p[2][1], 1>>
        ELSE With(GCD(p[1][2], p[2][2]), LAMBDA g :
            Norm(p[1][1] * (p[2][2] \div g) + p[2][1] * (p[1][2] \div g),
                 (p[1][2] \div g) * p[2][2])))
RSub(a, b) == RAdd(a, RNeg(b))
RMul(a0, b0) ==
    With(<<a0, b0>>, LAMBDA p :
        IF p[1][1] = 0 \/ p[2][1] = 0 THEN <<0, 1>>
        ELSE IF p[1][2] = 1 /\ p[2][2] = 1 THEN <<p[1][1] * p[2][1], 1>>
        ELSE With(<<GCD(Abs(p[1][1]), p[2][2]), GCD(Abs(p[2][1]), p[1][2])>>,
                  LAMBDA g :
                      <<(p[1][1] \div g[1]) * (p[2][1] \div g[2]),
                        (p[1][2] \div g[2]) * (p[2][2] \div g[1])>>))
RInv(a0) == With(a0, LAMBDA a : IF a[1] < 0 THEN <<-a[2], -a[1]>> ELSE <<a[2], a[1]>>)
RDiv(a, b) == RMul(a, RInv(b))
RAbs(a0) == With(a0, LAMBDA a : <<Abs(a[1]), a[2]>>)
RSign(a) == Sgn(a[1])

\* comparison of n1/d1 with n2/d2 (all >= 0) by continued fractions: -1, 0, 1
RECURSIVE RCmpPos(_, _, _, _)
RCmpPos(n1, d1, n2, d2) ==
    With(<<n1 \div d1, n1 % d1, n2 \div d2, n2 % d2, d1, d2>>, LAMBDA t :
        IF t[1] # t[3] THEN (IF t[1] < t[3] THEN -1 ELSE 1)
        ELSE IF t[2] = 0 /\ t[4] = 0 THEN 0
        ELSE IF t[2] = 0 THEN -1
        ELSE IF t[4] = 0 THEN 1
        ELSE -RCmpPos(t[5], t[2], t[6], t[4]))
RCmp(a0, b0) ==
    With(<<a0, b0>>, LAMBDA p :
        IF Sgn(p[1][1]) # Sgn(p[2][1])
        THEN (IF Sgn(p[1][1]) < Sgn(p[2][1]) THEN -1 ELSE 1)
        ELSE IF p[1][1] = 0 THEN 0
        ELSE IF p[1][2] = p[2][2]
        THEN (IF p[1][1] < p[2][1] THEN -1 ELSE IF p[1][1] = p[2][1] THEN 0 ELSE 1)
        ELSE IF p[1][1] > 0 THEN RCmpPos(p[1][1], p[1][2], p[2][1], p[2][2])
        ELSE RCmpPos(-p[2][1], p[2][2], -p[1][1], p[1][2]))
RLe(a, b) == RCmp(a, b) <= 0
RLt(a, b) == RCmp(a, b) < 0
RP(p) == <<R(p[1]), R(p[2])>>      \* an integer point as a rational point

\* the absolute tolerance 1e-5 of is_online
Tol == <<1, 100000>>

(***************************************************************************)
(* Square roots.  np.sqrt of a rational q >= 0 is kept exactly as the surd *)
(* [c, k] = c * sqrt(k), c a rational and k a square-free integer >= 1.    *)
(***************************************************************************)
\* the largest c >= b with c*c dividing n (n >= 1), searching upwards from t
RECURSIVE SquarePart(_, _, _)
SquarePart(n0, t0, b0) ==
    With(<<n0, t0, b0>>, LAMBDA p :
        IF p[2] * p[2] > p[1] THEN p[3]
        ELSE SquarePart(p[1], p[2] + 1,
                        IF p[1] % (p[2] * p[2]) = 0 THEN p[2] ELSE p[3]))

Sqrt(q0) ==
    With(q0, LAMBDA q :
        IF q[1] = 0 THEN [c |-> <<0, 1>>, k |-> 1]
        ELSE With(<<SquarePart(q[1], 1, 1), SquarePart(q[2], 1, 1)>>, LAMBDA s :
                 [c |-> Norm(s[1], s[2] * (q[2] \div (s[2] * s[2]))),
                  k |-> (q[1] \div (s[1] * s[1])) * (q[2] \div (s[2] * s[2]))]))

Num(q) == [c |-> q, k |-> 1]          \* a rational as a surd
SurdSq(a0) == With(a0, LAMBDA a : RMul(RMul(a.c, a.c), R(a.k)))
SurdLt(a, b) == RLt(SurdSq(a), SurdSq(b))     \* both are >= 0
\* a + b, for surds over the same radical (or one of them zero)
SurdAdd(a0, b0) ==
    With(<<a0, b0>>, LAMBDA p :
        IF p[1].c[1] = 0 THEN p[2]
        ELSE IF p[2].c[1] = 0 THEN p[1]
        ELSE [c |-> RAdd(p[1].c, p[2].c), k |-> CHOOSE k \in {p[1].k} : k = p[2].k])
\* the rational value of a surd that is one
RatOf(a0) == With(a0, LAMBDA a : CHOOSE q \in {a.c} : a.k = 1 \/ a.c[1] = 0)

\* distance(pos1, pos2) of two rational points
distance(pos1, pos2) ==
    With(<<RSub(pos1[1], pos2[1]), RSub(pos1[2], pos2[2])>>, LAMBDA d :
        Sqrt(RAdd(RMul(d[1], d[1]), RMul(d[2], d[2]))))

(***************************************************************************)
(* float32, the element type of the torch tensors.  A finite value is      *)
(* <<m, e>>, meaning m * 2^e with 2^23 <= |m| < 2^24, or <<0, 0>>; every   *)
(* operation rounds to nearest, ties to even.  The values that occur stay  *)
(* in the normal range, so overflow and subnormals are left out.           *)
(***************************************************************************)
F32Zero == <<0, 0>>

RECURSIVE BitLen(_)
BitLen(n) == IF n = 0 THEN 0 ELSE 1 + BitLen(n \div 2)

\* the float32 nearest to sg * (M + f) * 2^e, where M >= 0, 0 <= f < 1, and
\* st tells whether f > 0 (M then has 25 bits or more)
F32Round(sg, M0, e, st) ==
    With(<<M0, BitLen(M0)>>, LAMBDA p :
        IF p[1] = 0 THEN F32Zero
        ELSE IF p[2] <= 24
        THEN <<sg * p[1] * 2 ^ (24 - p[2]), e - (24 - p[2])>>
        ELSE With(<<p[1] \div 2 ^ (p[2] - 24), p[1] % 2 ^ (p[2] - 24),
                    2 ^ (p[2] - 25)>>, LAMBDA t :
                 With(IF t[2] > t[3] \/ (t[2] = t[3] /\ (st \/ t[1] % 2 = 1))
                      THEN t[1] + 1 ELSE t[1], LAMBDA q :
                         IF q = 2 ^ 24
                         THEN <<sg * 2 ^ 23, e + p[2] - 23>>
                         ELSE <<sg * q, e + p[2] - 24>>)))

\* a small integer as a float32 (exact)
F32Int(n) == F32Round(Sgn(n), Abs(n), 0, FALSE)

F32Neg(a) == <<-a[1], a[2]>>
F32Sign(a) == Sgn(a[1])

\* a + b when the exponent of big is at least that of small
F32AddOrdered(big, small) ==
    With(big[2] - small[2], LAMBDA d :
        IF d <= 6
        THEN With(big[1] * 2 ^ d + small[1], LAMBDA M :
                 F32Round(Sgn(M), Abs(M), small[2], FALSE))
        ELSE With(<<Abs(small[1]) \div 2 ^ (IF d > 36 THEN 30 ELSE d - 6),
                    Abs(small[1]) % 2 ^ (IF d > 36 THEN 30 ELSE d - 6) # 0>>,
                  LAMBDA q :
                     IF Sgn(big[1]) = Sgn(small[1])
                     THEN F32Round(Sgn(big[1]), Abs(big[1]) * 64 + q[1],
                                   big[2] - 6, q[2])
                     ELSE F32Round(Sgn(big[1]),
                                   Abs(big[1]) * 64 - q[1] - (IF q[2] THEN 1 ELSE 0),
                                   big[2] - 6, q[2])))

F32Add(a0, b0) ==
    With(<<a0, b0>>, LAMBDA p :
        IF p[1][1] = 0 THEN p[2]
        ELSE IF p[2][1] = 0 THEN p[1]
        ELSE IF p[1][2] >= p[2][2] THEN F32AddOrdered(p[1], p[2])
        ELSE F32AddOrdered(p[2], p[1]))

F32Sub(a, b) == F32Add(a, F32Neg(b))

\* a * b: the 48 bit product of the mantissas from 12 bit halves
F32Mul(a0, b0) ==
    With(<<a0, b0>>, LAMBDA p :
        IF p[1][1] = 0 \/ p[2][1] = 0 THEN F32Zero
        ELSE With(<<Abs(p[1][1]) \div 4096, Abs(p[1][1]) % 4096,
                    Abs(p[2][1]) \div 4096, Abs(p[2][1]) % 4096>>, LAMBDA h :
             With(<<h[1] * h[3], h[1] * h[4] + h[2] * h[3], h[2] * h[4]>>, LAMBDA t :
             With((t[2] % 4096) * 4096 + t[3], LAMBDA low :
             With(<<t[1] + t[2] \div 4096 + low \div 2 ^ 24, low % 2 ^ 24>>, LAMBDA r :
                 F32Round(Sgn(p[1][1]) * Sgn(p[2][1]),
                          r[1] * 64 + r[2] \div 2 ^ 18,
                          p[1][2] + p[2][2] + 18,
                          r[2] % 2 ^ 18 # 0))))))

\* the long division ma / mb, seven more bits of the quotient at a time
RECURSIVE F32DivSteps(_, _, _, _)
F32DivSteps(q0, r0, mb, n0) ==
    With(<<q0, r0, n0>>, LAMBDA p :
        IF p[3] = 0 THEN <<p[1], p[2]>>
        ELSE F32DivSteps(p[1] * 128 + (p[2] * 128) \div mb, (p[2] * 128) % mb,
                         mb, p[3] - 1))

\* a / b, b nonzero
F32Div(a0, b0) ==
    With(<<a0, b0>>, LAMBDA p :
        IF p[1][1] = 0 THEN F32Zero
        ELSE With(F32DivSteps(Abs(p[1][1]) \div Abs(p[2][1]),
                              Abs(p[1][1]) % Abs(p[2][1]), Abs(p[2][1]), 4),
                  LAMBDA qr :
                     F32Round(Sgn(p[1][1]) * Sgn(p[2][1]), qr[1],
                              p[1][2] - p[2][2] - 28, qr[2] # 0)))

\* a < b
F32Lt(a, b) == F32Sign(F32Sub(a, b)) < 0

\* the float32 nearest to the rational q (numerator and denominator exact)
F32Of(q) == F32Div(F32Int(q[1]), F32Int(q[2]))

(***************************************************************************)
(* Geometry kernel                                                         *)
(***************************************************************************)
\* the point of cal_crosspoint when neither line is vertical and the slopes
\* a1, a3 differ
SlopeCross(x1, y1, x2, y2, x3, y3, a1, a3) ==
    With(RDiv(RAdd(RSub(RSub(RMul(a1, x1), y1), RMul(a3, x3)), y3),
              RSub(a1, a3)),
         LAMBDA x :
            <<x, RAdd(RMul(RDiv(RSub(y2, y1), RSub(x2, x1)), RSub(x, x1)), y1)>>)

\* cal_crosspoint(line1, line2): intersection of the two infinite lines
cal_crosspoint(l1, l2) ==
    With(<<R(l1[1][1]), R(l1[1][2]), R(l1[2][1]), R(l1[2][2]),
           R(l2[1][1]), R(l2[1][2]), R(l2[2][1]), R(l2[2][2])>>, LAMBDA v :
        LET x1 == v[1]  y1 == v[2]  x2 == v[3]  y2 == v[4]
            x3 == v[5]  y3 == v[6]  x4 == v[7]  y4 == v[8]
        IN  IF x1 = x2 /\ x3 = x4
            THEN [flag |-> FALSE, point |-> <<R(0), R(0)>>]
            ELSE IF x1 = x2
            THEN [flag |-> TRUE,
                  point |-> <<x1, RAdd(RMul(RDiv(RSub(y4, y3), RSub(x4, x3)),
                                            RSub(x1, x3)), y3)>>]
            ELSE IF x3 = x4
            THEN [flag |-> TRUE,
                  point |-> <<x3, RAdd(RMul(RDiv(RSub(y2, y1), RSub(x2, x1)),
                                            RSub(x3, x1)), y1)>>]
            ELSE With(<<RDiv(RSub(y2, y1), RSub(x2, x1)),
                        RDiv(RSub(y4, y3), RSub(x4, x3))>>, LAMBDA a :
                     IF a[1] = a[2]
                     THEN [flag |-> FALSE, point |-> <<R(0), R(0)>>]
                     ELSE [flag |-> TRUE,
                           point |-> SlopeCross(x1, y1, x2, y2, x3, y3,
                                                a[1], a[2])]))

\* all(abs(q - pos) <= 1e-5)
NearPoint(q, pos) ==
    /\ RLe(RAbs(RSub(q[1], pos[1])), Tol)
    /\ RLe(RAbs(RSub(q[2], pos[2])), Tol)

\* is_online(line, pos): is the point pos on the segment line
is_online(line, pos0) ==
    With(<<RP(line[1]), RP(line[2]), pos0>>, LAMBDA v :
        LET pos1 == v[1]
            pos2 == v[2]
            pos == v[3]
        IN  With(<< <<RSub(pos1[1], pos[1]), RSub(pos1[2], pos[2])>>,     \* pos1-pos
                    <<RSub(pos2[1], pos[1]), RSub(pos2[2], pos[2])>>,     \* pos2-pos
                    <<RSub(pos[1], pos2[1]), RSub(pos[2], pos2[2])>> >>,  \* pos-pos2
                 LAMBDA d :
                    IF NearPoint(pos1, pos) \/ NearPoint(pos2, pos)
                    THEN TRUE
                    ELSE IF RLe(Tol, RAbs(RSub(RMul(d[1][2], d[2][1]),
                                               RMul(d[1][1], d[2][2]))))
                    THEN FALSE
                    ELSE /\ RSign(d[1][1]) = RSign(d[3][1])
                         /\ RSign(d[1][2]) = RSign(d[3][2])))

\* crossing(line1, line2) with only the first is_online test
crossingFirstOnly(l1, l2) ==
    With(cal_crosspoint(l1, l2), LAMBDA c :
        [flag |-> c.flag /\ is_online(l1, c.point), point |-> c.point])

\* crossing(line1, line2): do the two segments cross, and where
crossing(l1, l2) ==
    With(cal_crosspoint(l1, l2), LAMBDA c :
        LET f1 == IF ~is_online(l1, c.point) THEN FALSE ELSE c.flag
            f2 == IF ~is_online(l2, c.point) THEN FALSE ELSE f1
        IN  [flag |-> f2, point |-> c.point])

(***************************************************************************)
(* Car: the kinematic vehicle.  yaw and the steering rate are counted in   *)
(* quarter turns, so cos and sin are exact.                                *)
(***************************************************************************)
Cos(q) == CASE q % 4 = 0 -> 1 [] q % 4 = 1 -> 0 [] q % 4 = 2 -> -1 [] OTHER -> 0
Sin(q) == CASE q % 4 = 0 -> 0 [] q % 4 = 1 -> 1 [] q % 4 = 2 -> 0 [] OTHER -> -1

NoCar == [exists |-> FALSE]

\* Car._params_update(new_params): copy the given fields, then pos and v
params_update(p, new) ==
    With([f \in DOMAIN p |-> IF f \in DOMAIN new THEN new[f] ELSE p[f]], LAMBDA q :
        [q EXCEPT !.pos = <<q.x, q.y>>,
                  !.v = Sqrt(R(q.vx * q.vx + q.vy * q.vy))])

\* Car._params_history_update() without the position history (line 132)
params_history_update_NoPos(h, p) ==
    [f \in DOMAIN h |-> IF f = "pos" THEN h[f] ELSE Append(h[f], p[f])]

\* Car._params_history_update(): append the current value of every field
params_history_update(h, p) ==
    [f \in DOMAIN h |-> Append(h[f], p[f])]

\* Car._model() without the advance of time
model_NoTime(p) ==
    [params |-> p,
     nparams |-> [x   |-> p.x + p.vx * Cos(p.yaw) * p.dt,
                  y   |-> p.y + p.vx * Sin(p.yaw) * p.dt,
                  vx  |-> p.vx + p.a * p.dt,
                  yaw |-> p.yaw + p.s * p.dt]]

\* Car._model(): advance time, compute the next x, y, vx, yaw
model_(p) ==
    [params |-> [p EXCEPT !.time = p.time + p.dt],
     nparams |-> [x   |-> p.x + p.vx * Cos(p.yaw) * p.dt,
                  y   |-> p.y + p.vx * Sin(p.yaw) * p.dt,
                  vx  |-> p.vx + p.a * p.dt,
                  yaw |-> p.yaw + p.s * p.dt]]

\* Car.__init__(**kwargs): every field 0 unless given
CarNew(kw) ==
    With([f \in {"x", "y", "yaw", "vx", "vy", "a", "s", "time", "dt"} |->
              IF f \in DOMAIN kw THEN kw[f] ELSE 0]
           @@ [v |-> Num(R(0)), pos |-> <<0, 0>>], LAMBDA p0 :
        With(params_update(p0, p0), LAMBDA p :
            [exists |-> TRUE,
             params |-> p,
             histories |-> [f \in DOMAIN p |->
                               CASE f = "dt" -> <<0>>
                                 [] f \in {"a", "s"} -> <<>>
                                 [] OTHER -> <<p[f]>>],
             nparams |-> <<>>,
             moved |-> FALSE,                  \* dpos and step_dis exist
             dpos |-> <<<<0, 0>>, <<0, 0>>>>,
             step_dis |-> Num(R(0)),
             total_dis |-> Num(R(0))]))

\* the tail of Car.update: lines 94 to 99, once the next fields n are known
update_apply(c, params, n) ==
    With(<<params.pos, <<n.x, n.y>>>>, LAMBDA dpos :
        With(<<distance(RP(dpos[1]), RP(dpos[2])), params_update(params, n)>>,
             LAMBDA r :
                [c EXCEPT !.params = r[2], !.nparams = n, !.moved = TRUE,
                          !.dpos = dpos, !.step_dis = r[1],
                          !.total_dis = SurdAdd(c.total_dis, r[1]),
                          !.histories = params_history_update(c.histories, r[2])]))

\* Car.update(a, steer, dt) computing x and y from the already updated speed
updateLateSpeed(c0, a, steer, dt) ==
    With(c0, LAMBDA c :
        With(model_([c.params EXCEPT !.a = a, !.s = steer, !.dt = dt,
                                    !.time = c.params.time + dt]), LAMBDA m :
            update_apply(c, m.params,
                [m.nparams EXCEPT
                    !.x = m.params.x + m.nparams.vx * Cos(m.params.yaw) * dt,
                    !.y = m.params.y + m.nparams.vx * Sin(m.params.yaw) * dt])))

\* Car.update(a, steer, dt)
update(c0, a, steer, dt) ==
    With(c0, LAMBDA c :
        With(model_([c.params EXCEPT !.a = a, !.s = steer, !.dt = dt,
                                    !.time = c.params.time + dt]), LAMBDA m :
            update_apply(c, m.params, m.nparams)))

(***************************************************************************)
(* MAP: the wall segments, and the collision test                          *)
(***************************************************************************)
RECURSIVE Flatten(_)
Flatten(ss) == IF ss = <<>> THEN <<>> ELSE Head(ss) \o Flatten(Tail(ss))

\* MAP.__init__(walls): every pair of consecutive vertices of a polyline
MAPNew(ws) ==
    Flatten([w \in 1 .. Len(ws) |->
                [i \in 1 .. Len(ws[w]) - 1 |-> <<ws[w][i], ws[w][i + 1]>>]])

\* MAP.is_collision(line): the crossing points with the walls, in wall order
is_collision(lines0, line0) ==
    With(<<lines0, line0>>, LAMBDA a :
        With([i \in 1 .. Len(a[1]) |-> crossing(a[1][i], a[2])], LAMBDA cs :
            With(SelectSeq(cs, LAMBDA c : c.flag), LAMBDA hit :
                [flag |-> hit # <<>>,
                 points |-> [i \in 1 .. Len(hit) |-> hit[i].point]])))

(***************************************************************************)
(* LiDAR: the fan of range probes.  Angles are in quarter turns.           *)
(***************************************************************************)
NoLidar == [exists |-> FALSE]
NoReading == [status |-> "none"]
Unbound == <<>>           \* a local name that has not been assigned

\* LiDAR.__init__(car, sensor_angle_max, sensor_num, line_len)
LiDARNew(sensor_angle_max, snum, line_len) ==
    LET sensor_angle_min == -(sensor_angle_max \div 2)
        sensor_angle_delta == sensor_angle_max \div (snum - 1)
    IN  [exists |-> TRUE,
         sensor_num |-> snum,
         sensor_angles_std |->
             [i \in 1 .. snum |-> sensor_angle_min + sensor_angle_delta * (i - 1)],
         line_len |-> line_len]

\* the loop "for p in points" of make_line: keep the nearest point so far
RECURSIVE NearestScan(_, _, _)
NearestScan(points0, pos, st0) ==
    With(<<points0, st0>>, LAMBDA a :
        IF a[1] = <<>> THEN a[2]
        ELSE With(distance(RP(pos), Head(a[1])), LAMBDA dis :
                 NearestScan(Tail(a[1]), pos,
                     IF SurdLt(dis, a[2].line_dis)
                     THEN [line_dis |-> dis, point |-> Head(a[1])]
                     ELSE a[2])))

\* one iteration of the loop over the sensor angles; point is the local
\* variable left by the previous iterations
make_line_ray(lines, pos, sensor_angle, line_len, point) ==
    With(<<pos[1] + Cos(sensor_angle) * line_len,
           pos[2] + Sin(sensor_angle) * line_len>>, LAMBDA line_end_xy :
        With(is_collision(lines, <<line_end_xy, pos>>), LAMBDA col :
            With(IF col.flag
                 THEN NearestScan(col.points, pos,
                          [line_dis |-> Num(R(line_len)), point |-> point])
                 ELSE [line_dis |-> Num(R(line_len)), point |-> RP(line_end_xy)],
                 LAMBDA st :
                    [hit |-> col.flag, point |-> st.point,
                     line_dis |-> st.line_dis])))

\* LiDAR.make_line(map): the readings of all rays, or the exception raised
\* when point.reshape is reached with point never assigned
RECURSIVE make_line_from(_, _, _, _, _, _)
make_line_from(ld, lines, pos, yaw, i0, acc0) ==
    With(<<i0, acc0>>, LAMBDA a :
        IF a[1] > ld.sensor_num
        THEN [status |-> "ok", line_end_pos |-> a[2].line_end_pos,
              line_reaches_wall |-> a[2].line_reaches_wall,
              line_distaces |-> a[2].line_distaces]
        ELSE With(make_line_ray(lines, pos, ld.sensor_angles_std[a[1]] + yaw,
                                ld.line_len, a[2].point), LAMBDA r :
                 IF r.point = Unbound
                 THEN [status |-> "UnboundLocalError"]
                 ELSE make_line_from(ld, lines, pos, yaw, a[1] + 1,
                          [point |-> r.point,
                           line_end_pos |-> Append(a[2].line_end_pos, r.point),
                           line_reaches_wall |-> Append(a[2].line_reaches_wall, r.hit),
                           line_distaces |-> Append(a[2].line_distaces, r.line_dis)])))

make_line(ld0, c0, lines0) ==
    With(<<ld0, c0.params, lines0>>, LAMBDA a :
        make_line_from(a[1], a[3], a[2].pos, a[2].yaw, 1,
            [point |-> Unbound, line_end_pos |-> <<>>,
             line_reaches_wall |-> <<>>, line_distaces |-> <<>>]))

\* the road of the script: the inner and the outer square
in_vertices == <<<<30, 30>>, <<-30, 30>>, <<-30, -30>>, <<30, -30>>, <<30, 30>>>>
out_vertices == <<<<40, 40>>, <<-40, 40>>, <<-40, -40>>, <<40, -40>>, <<40, 40>>>>
walls == <<in_vertices, out_vertices>>

(***************************************************************************)
(* The policy and the choice of an action                                  *)
(***************************************************************************)
direction_list == <<1, 0, -1>>
acceleration_list == <<1, 0, -1>>
\* ACTION_LIST = [(d, a) for d in direction_list for a in acceleration_list]
ACTION_LIST ==
    [i \in 1 .. Len(direction_list) * Len(acceleration_list) |->
        <<direction_list[((i - 1) \div Len(acceleration_list)) + 1],
          acceleration_list[((i - 1) % Len(acceleration_list)) + 1]>>]
NUM_ACTIONS == Len(ACTION_LIST)
steer_step == 1          \* np.deg2rad(90): one quarter turn
ActionDt == 1            \* action["dt"]: one tick

\* outputs of the network: probability vectors over the actions
PointDist(k) == [i \in 1 .. NUM_ACTIONS |-> IF i = k THEN R(1) ELSE R(0)]
MixDist(k1, p1, k2, p2) ==
    [i \in 1 .. NUM_ACTIONS |-> IF i = k1 THEN p1 ELSE IF i = k2 THEN p2 ELSE R(0)]
WideModel == { MixDist(5, <<1, 2>>, 7, <<1, 2>>),
               MixDist(2, <<1, 4>>, 6, <<3, 4>>),
               PointDist(1) }
NarrowModel == { MixDist(2, <<1, 4>>, 4, <<3, 4>>) }

\* np.random.choice(range(NUM_ACTIONS), p=prop): the actions that can be drawn
Support(output) == {k \in 1 .. NUM_ACTIONS : output[k][1] > 0}

\* dicide_action(output), with action the index drawn
dicide_action(k) ==
    [action |-> [steer |-> ACTION_LIST[k][1] * steer_step,
                 a |-> ACTION_LIST[k][2],
                 dt |-> ActionDt],
     one_hot |-> [i \in 1 .. NUM_ACTIONS |-> IF i = k THEN 1 ELSE 0]]

\* output @ one_hot
RECURSIVE DotFrom(_, _, _)
DotFrom(output, one_hot, i) ==
    IF i > NUM_ACTIONS THEN R(0)
    ELSE RAdd(RMul(output[i], R(one_hot[i])), DotFrom(output, one_hot, i + 1))
Dot(output, one_hot) == DotFrom(output, one_hot, 1)

(***************************************************************************)
(* episode(): one rollout                                                  *)
(***************************************************************************)
NaN == <<>>                        \* np.nan in a float32 tensor
collision_reward == 0

\* the locals of episode() with the two rows filled with zeros
EpisodeNewZeros(maxn) ==
    [exists |-> TRUE,
     experiences |-> <<>>,
     done |-> FALSE,
     step |-> 0,
     pi_list |-> [i \in 1 .. maxn |-> F32Zero],
     reward_list |-> [i \in 1 .. maxn |-> F32Zero]]

\* the locals of episode() before the loop
EpisodeNew(maxn) ==
    [exists |-> TRUE,
     experiences |-> <<>>,
     done |-> FALSE,
     step |-> 0,
     pi_list |-> [i \in 1 .. maxn |-> NaN],
     reward_list |-> [i \in 1 .. maxn |-> NaN]]

\* reward and done of a step, with a budget test that is one step late
judgeLate(collision_flag, step_dis, nexp, maxn) ==
    [reward |-> IF collision_flag THEN Num(R(collision_reward)) ELSE step_dis,
     done |-> collision_flag \/ nexp >= maxn]

\* reward and done of a step, with the timeout keeping the progress reward
\* of a step that also collides
judgeTimeoutFirst(collision_flag, step_dis, nexp, maxn) ==
    [reward |-> IF collision_flag /\ ~(nexp >= maxn - 1)
                THEN Num(R(collision_reward)) ELSE step_dis,
     done |-> collision_flag \/ nexp >= maxn - 1]

\* reward and done of a step: the collision test and the budget test
judge(collision_flag, step_dis, nexp, maxn) ==
    LET reward1 == IF collision_flag THEN Num(R(collision_reward)) ELSE step_dis
        done1 == collision_flag
        done2 == IF nexp >= maxn - 1 THEN TRUE ELSE done1
    IN  [reward |-> reward1, done |-> done2]

\* the part of an iteration after car.update: lines 542 to 578
episode_record(e, c2, lines, rd, output, d, maxn) ==
    With(judge(is_collision(lines, c2.dpos).flag, c2.step_dis,
               Len(e.experiences), maxn), LAMBDA j :
        With([state |-> rd.line_distaces, output |-> output,
              reward |-> j.reward, action |-> d.action,
              one_hot |-> d.one_hot, done |-> j.done], LAMBDA step_dict :
            IF e.step + 1 > maxn
            THEN [status |-> "IndexError", car |-> c2,
                  epi |-> [e EXCEPT !.done = j.done,
                                    !.experiences = Append(@, step_dict)]]
            ELSE [status |-> "ok", car |-> c2,
                  epi |-> [e EXCEPT
                            !.done = j.done,
                            !.experiences = Append(@, step_dict),
                            !.pi_list[e.step + 1] = F32Of(Dot(output, d.one_hot)),
                            !.reward_list[e.step + 1] = F32Of(RatOf(j.reward)),
                            !.step = e.step + 1]]))

\* one iteration of the while loop, with what make_line returned, the output
\* of the network and the action drawn
episode_step(e, c, ld, lines, rd, output, k, maxn) ==
    With(<<rd, dicide_action(k)>>, LAMBDA r :
        IF r[1].status # "ok"
        THEN [status |-> r[1].status, car |-> c, epi |-> e]
        ELSE With(update(c, r[2].action.a, r[2].action.steer, r[2].action.dt),
                  LAMBDA c2 :
                     episode_record(e, c2, lines, r[1], output, r[2], maxn)))

\* the start of the script
x0 == 30
y0 == 0
yaw0 == 1          \* 90 degrees
verocity == 6
sensor_num == 3
line_len_default == 30
sensor_angle_max_default == 2      \* 180 degrees

(***************************************************************************)
(* update_policy(): the policy gradient step on a batch.  rewards and      *)
(* policies are float32 tensors of one row per episode, padded with NaN;   *)
(* steps holds the lengths.                                                *)
(***************************************************************************)
\* Tensor.nansum over one row: NaN counts as zero; a row shorter than the
\* vector width of the kernel is added up in index order
RECURSIVE nansum_from(_, _, _)
nansum_from(row, i0, acc0) ==
    With(<<i0, acc0>>, LAMBDA p :
        IF p[1] > Len(row) THEN p[2]
        ELSE nansum_from(row, p[1] + 1,
                 IF row[p[1]] = NaN THEN p[2] ELSE F32Add(p[2], row[p[1]])))
nansum(row) == nansum_from(row, 1, F32Zero)

\* Tensor.mean of a vector without NaN
mean(vec) == F32Div(nansum(vec), F32Int(Len(vec)))

\* (t.nansum(dim=1)/steps).mean() with the rows divided by the row length
per_step_mean_RowLen(t, steps) ==
    mean([m \in 1 .. Len(t) |-> F32Div(nansum(t[m]), F32Int(Len(t[m])))])

\* (t.nansum(dim=1)/steps).mean()
per_step_mean(t, steps) ==
    mean([m \in 1 .. Len(t) |-> F32Div(nansum(t[m]), F32Int(steps[m]))])

ClampMin == <<14411519, -57>>         \* float32(1e-10)
ClampMax == F32Int(1)
\* torch.clamp(p, 1e-10, 1) of one element
clamp(p) ==
    IF p = NaN THEN NaN
    ELSE IF F32Lt(p, ClampMin) THEN ClampMin
    ELSE IF F32Lt(ClampMax, p) THEN ClampMax
    ELSE p

\* Tensor.log of one element, for the probabilities the policies put out
log(p) ==
    CASE p = NaN -> NaN
      [] p = F32Int(1) -> F32Zero
      [] p = F32Of(<<3, 4>>) -> <<-9653009, -25>>
      [] p = F32Of(<<1, 2>>) -> <<-11629080, -24>>
      [] p = F32Of(<<1, 4>>) -> <<-11629080, -23>>
      [] p = ClampMin -> <<-12072177, -19>>

\* a * b and a - b of tensor elements: NaN if either is NaN
NaNMul(a, b) == IF a = NaN \/ b = NaN THEN NaN ELSE F32Mul(a, b)
NaNSub(a, b) == IF a = NaN \/ b = NaN THEN NaN ELSE F32Sub(a, b)

\* J.backward(): the gradient of J that reaches the recorded probability
\* policies[m][t]: back through mean, the division by steps, nansum, the
\* product, log and clamp.  A padded entry has no parameter behind it.
backward(policies, adv, steps) ==
    [m \in 1 .. Len(policies) |->
        [t \in 1 .. Len(policies[m]) |->
            IF policies[m][t] = NaN \/ adv[m][t] = NaN THEN NaN
            ELSE IF F32Lt(policies[m][t], ClampMin) \/ F32Lt(ClampMax, policies[m][t])
            THEN F32Zero
            ELSE F32Div(F32Mul(F32Div(F32Div(F32Int(1), F32Int(Len(policies))),
                                      F32Int(steps[m])),
                               adv[m][t]),
                        clamp(policies[m][t]))]]

\* opt.step() of optim.Adam: each parameter moves against the gradient it
\* holds.  On the first step the move is -lr * g / (|g| + eps), kept here
\* in units of lr; later steps depend on the moments and are not kept.
Later == <<"later">>
Cleared == <<"cleared">>            \* the gradients after opt.zero_grad()
OptNew == [nsteps |-> 0, grad |-> Cleared]
adam_move(o) ==
    IF o.nsteps # 0 THEN Later
    ELSE [m \in 1 .. Len(o.grad) |->
             [t \in 1 .. Len(o.grad[m]) |->
                 IF o.grad[m][t] = NaN THEN NaN ELSE -F32Sign(o.grad[m][t])]]
opt_step(o) == [o EXCEPT !.nsteps = @ + 1]
zero_grad(o) == [o EXCEPT !.grad = Cleared]

\* update_policy(rewards, policies, steps, opt): the locals of the call and
\* the optimizer after it
update_policy(rewards, policies, steps, o) ==
    With(per_step_mean(rewards, steps), LAMBDA reward_ave :
    With([m \in 1 .. Len(rewards) |->
             [t \in 1 .. Len(rewards[m]) |-> NaNSub(rewards[m][t], reward_ave)]],
         LAMBDA adv :
    With([m \in 1 .. Len(rewards) |->
             [t \in 1 .. Len(rewards[m]) |->
                 NaNMul(log(clamp(policies[m][t])), adv[m][t])]], LAMBDA Jmt :
    With(backward(policies, adv, steps), LAMBDA grad :
        [upd |-> [reward_ave |-> reward_ave, adv |-> adv, Jmt |-> Jmt,
                  J |-> per_step_mean(Jmt, steps), grad |-> grad,
                  move |-> adam_move([o EXCEPT !.grad = grad])],
         opt |-> zero_grad(opt_step([o EXCEPT !.grad = grad]))]))))

(***************************************************************************)
(* Values of the parts of the state a specification does not use           *)
(***************************************************************************)
NoEpisode == [exists |-> FALSE]
NoTrain == [exists |-> FALSE]
NoOpt == [exists |-> FALSE]
NoUpd == [exists |-> FALSE]
GeomIdle ==
    /\ line1 = <<>> /\ line2 = <<>>
    /\ crossRes = [flag |-> FALSE, point |-> <<R(0), R(0)>>]
LidarIdle == lidar = NoLidar /\ reading = NoReading
EpisodeIdle == model = {} /\ max_number_of_steps = 0 /\ epi = NoEpisode
TrainIdle == train = NoTrain /\ opt = NoOpt /\ upd = NoUpd

(***************************************************************************)
(* Specification SpecGeom: crossing() applied to every pair of segments    *)
(* with end points on a small grid.                                        *)
(***************************************************************************)
GridMax == 1
GridCoords == (0 .. GridMax) \cup {10}
GridPoints == GridCoords \X GridCoords
GridSegs == GridPoints \X GridPoints

InitGeom ==
    /\ pc = "geom_call"
    /\ line1 \in GridSegs
    /\ line2 \in GridSegs
    /\ crossRes = [flag |-> FALSE, point |-> <<R(0), R(0)>>]
    /\ car = NoCar
    /\ Map = <<>>
    /\ LidarIdle /\ EpisodeIdle /\ TrainIdle

CallCrossing ==
    /\ pc = "geom_call"
    /\ crossRes' = crossing(line1, line2)
    /\ pc' = "geom_done"
    /\ UNCHANGED <<line1, line2, car, Map, lidarVars, episodeVars, trainVars>>

NextGeom == CallCrossing

SpecGeom == InitGeom /\ [][NextGeom]_vars

\* the two lines through the segments, described without slopes
IsVertical(l) == l[1][1] = l[2][1]
SameSlope(l1, l2) ==
    (l1[2][2] - l1[1][2]) * (l2[2][1] - l2[1][1])
        = (l2[2][2] - l2[1][2]) * (l1[2][1] - l1[1][1])
Parallel(l1, l2) ==
    \/ IsVertical(l1) /\ IsVertical(l2)
    \/ ~IsVertical(l1) /\ ~IsVertical(l2) /\ SameSlope(l1, l2)
\* y of the non-vertical line l at abscissa x
LineAt(l, x) ==
    Norm((l[2][2] - l[1][2]) * (x - l[1][1]) + l[1][2] * (l[2][1] - l[1][1]),
         l[2][1] - l[1][1])
\* the point where two non-parallel lines meet (Cramer's rule)
LineMeet(l1, l2) ==
    LET x1 == l1[1][1]  y1 == l1[1][2]  x2 == l1[2][1]  y2 == l1[2][2]
        x3 == l2[1][1]  y3 == l2[1][2]  x4 == l2[2][1]  y4 == l2[2][2]
        den == (x1 - x2) * (y3 - y4) - (y1 - y2) * (x3 - x4)
        c1 == x1 * y2 - y1 * x2
        c2 == x3 * y4 - y3 * x4
    IN  IF IsVertical(l1) THEN <<R(x1), LineAt(l2, x1)>>
        ELSE IF IsVertical(l2) THEN <<R(x3), LineAt(l1, x3)>>
        ELSE <<Norm(c1 * (x3 - x4) - (x1 - x2) * c2, den),
               Norm(c1 * (y3 - y4) - (y1 - y2) * c2, den)>>

\* C8: crossing returns crosses=true exactly when the lines through the
\* two segments are not parallel (not both vertical, not of equal slope)
\* and their meeting point is on both segments by is_online; parallel
\* segments give false; (0,0)-(10,10) x (0,10)-(10,0) gives true at (5,5),
\* (0,0)-(10,0) x (0,1)-(10,1) gives false.
C8_CrossingIffOnBoth ==
    pc = "geom_done" =>
        /\ Parallel(line1, line2) => ~crossRes.flag
        /\ ~Parallel(line1, line2) =>
              /\ crossRes.point = LineMeet(line1, line2)
              /\ crossRes.flag <=>
                    (/\ is_online(line1, LineMeet(line1, line2))
                     /\ is_online(line2, LineMeet(line1, line2)))
        /\ (line1 = <<<<0, 0>>, <<10, 10>>>> /\ line2 = <<<<0, 10>>, <<10, 0>>>>)
              => (crossRes.flag /\ crossRes.point = <<R(5), R(5)>>)
        /\ (line1 = <<<<0, 0>>, <<10, 0>>>> /\ line2 = <<<<0, 1>>, <<10, 1>>>>)
              => ~crossRes.flag

\* C8 witness: the diagonal example has been evaluated and crosses at (5,5)
C8_Witness ==
    /\ pc = "geom_done"
    /\ line1 = <<<<0, 0>>, <<10, 10>>>>
    /\ line2 = <<<<0, 10>>, <<10, 0>>>>
    /\ crossRes.flag
    /\ crossRes.point = <<R(5), R(5)>>

(***************************************************************************)
(* Specification SpecCar: a Car built from small keyword arguments and     *)
(* updated up to MaxUpdates times with small controls.                     *)
(***************************************************************************)
MaxUpdates == 2
CarKwargs ==
    [x : {0, 3}, y : {0}, yaw : {-1, 0, 1}, vx : {-1, 1, 2}, vy : {0, 1},
     time : {0, 5}]
AccelSet == {-1, 0, 1}
SteerSet == {-1, 0, 1}
DtSet == {1, 2}

InitCar ==
    /\ pc = "car"
    /\ car \in {CarNew(kw) : kw \in CarKwargs}
    /\ Map = <<>>
    /\ GeomIdle /\ LidarIdle /\ EpisodeIdle /\ TrainIdle

CarUpdate ==
    /\ pc = "car"
    /\ Len(car.histories.a) < MaxUpdates
    /\ \E a \in AccelSet, steer \in SteerSet, dt \in DtSet :
          car' = update(car, a, steer, dt)
    /\ UNCHANGED <<pc, geomVars, Map, lidarVars, episodeVars, trainVars>>

NextCar == CarUpdate

SpecCar == InitCar /\ [][NextCar]_vars

RECURSIVE SumSeq(_)
SumSeq(q) == IF q = <<>> THEN 0 ELSE Head(q) + SumSeq(Tail(q))

\* a call of Car.update separates the two states
Updated == Len(car'.histories.a) = Len(car.histories.a) + 1

\* C6: Car.update(a, steer, dt) computes the new state from the pre-update
\* values only: x' = x + vx*cos(yaw)*dt, y' = y + vx*sin(yaw)*dt,
\* vx' = vx + a*dt, yaw' = yaw + steer*dt; vy is unchanged, v is
\* sqrt(vx'^2 + vy^2) and step_dis is the Euclidean distance between the old
\* and the new position.  From (0,0), yaw 0, vx 1 with a = 0, steer = 0,
\* dt = 1 the vehicle ends at (1,0), yaw and speed unchanged, step_dis = 1.
C6_UpdateKinematics ==
    [][Updated =>
        LET p == car.params
            q == car'.params
        IN  /\ q.x = p.x + p.vx * Cos(p.yaw) * q.dt
            /\ q.y = p.y + p.vx * Sin(p.yaw) * q.dt
            /\ q.vx = p.vx + q.a * q.dt
            /\ q.yaw = p.yaw + q.s * q.dt
            /\ q.vy = p.vy
            /\ q.pos = <<q.x, q.y>>
            /\ SurdSq(q.v) = R(q.vx * q.vx + p.vy * p.vy)
            /\ SurdSq(car'.step_dis)
                  = R((q.x - p.x) * (q.x - p.x) + (q.y - p.y) * (q.y - p.y))
            /\ car'.dpos = <<p.pos, q.pos>>
            /\ (p.pos = <<0, 0>> /\ p.yaw = 0 /\ p.vx = 1 /\ p.vy = 0
                  /\ q.a = 0 /\ q.s = 0 /\ q.dt = 1)
                 => (q.pos = <<1, 0>> /\ q.yaw = 0 /\ q.vx = 1 /\ q.v = p.v
                       /\ car'.step_dis = Num(R(1)))
    ]_vars

\* C6 witness: the example step has been taken from (0,0), yaw 0, vx 1
C6_Witness ==
    /\ pc = "car"
    /\ car.histories.pos = <<<<0, 0>>, <<1, 0>>>>
    /\ car.histories.yaw = <<0, 0>>
    /\ car.histories.vx = <<1, 1>>
    /\ car.histories.a = <<0>> /\ car.histories.s = <<0>>
    /\ car.histories.dt = <<0, 1>>
    /\ car.step_dis = Num(R(1))

\* C9: every call of Car.update advances params['time'] by 2*dt (once in
\* update, once in _model); after n calls the elapsed time is the initial
\* time plus twice the sum of the dt values used.
C9_TimeAdvancesTwice ==
    /\ [](pc = "car" =>
            car.params.time
               = car.histories.time[1] + 2 * SumSeq(car.histories.dt))
    /\ [][Updated =>
            car'.params.time = car.params.time + 2 * car'.params.dt]_vars

\* C9 witness: two updates with dt = 1 and dt = 2 from time 5 end at time 11
C9_Witness ==
    /\ pc = "car"
    /\ car.histories.dt = <<0, 1, 2>>
    /\ car.histories.time = <<5, 7, 11>>
    /\ car.params.time = 11

\* the fields of Car._params_name
ParamsName == {"x", "y", "yaw", "vx", "vy", "v", "a", "s", "pos", "time", "dt"}

\* the sum, in the order of the updates, of the distances between
\* consecutive recorded positions: the step_dis of update i is the distance
\* from entry i to entry i + 1 of the position history
RECURSIVE StepDisSum(_, _)
StepDisSum(ps, n) ==
    IF n = 0 THEN Num(R(0))
    ELSE SurdAdd(StepDisSum(ps, n - 1), distance(RP(ps[n]), RP(ps[n + 1])))

\* h is g with exactly one entry e put after it
AppendsOne(g, h, e) ==
    /\ Len(h) = Len(g) + 1
    /\ \A i \in 1 .. Len(g) : h[i] = g[i]
    /\ h[Len(h)] = e

\* C11: the history of a Car is append-only with one entry per completed
\* update: a call of Car.update puts exactly one entry, the state after the
\* update (with the a, s and dt used), at the end of the history of every
\* field x, y, yaw, vx, vy, v, a, s, time, dt and of the position history;
\* the entries already there are neither changed nor removed; nothing but
\* an update changes the histories or total_dis; and total_dis is the sum
\* of the step_dis of all updates so far.
C11_HistoryAppendOnly ==
    /\ [](pc = "car" =>
            LET h == car.histories
                n == Len(h.a)
            IN  /\ DOMAIN h = ParamsName
                /\ Len(h.s) = n
                /\ \A f \in ParamsName \ {"a", "s"} : Len(h[f]) = n + 1
                /\ n > 0 => \A f \in ParamsName : h[f][Len(h[f])] = car.params[f]
                /\ \A i \in 1 .. n + 1 : h.pos[i] = <<h.x[i], h.y[i]>>
                /\ car.total_dis = StepDisSum(h.pos, n)
                /\ car.moved => car.dpos = <<h.pos[n], h.pos[n + 1]>>)
    /\ [][(car'.histories /= car.histories \/ car'.total_dis /= car.total_dis
             \/ car'.params /= car.params)
           => /\ \A f \in ParamsName :
                    AppendsOne(car.histories[f], car'.histories[f], car'.params[f])
              /\ car'.total_dis = SurdAdd(car.total_dis, car'.step_dis)
              /\ car'.step_dis
                    = distance(RP(car.params.pos), RP(car'.params.pos))]_vars

\* C11 witness: two updates from (0,0) along +x at speed 1, with dt = 1 and
\* then dt = 2 and a = 1: three recorded positions, two recorded controls,
\* total_dis = 1 + 2
C11_Witness ==
    /\ pc = "car"
    /\ car.histories.pos = <<<<0, 0>>, <<1, 0>>, <<3, 0>>>>
    /\ car.histories.x = <<0, 1, 3>>
    /\ car.histories.a = <<0, 1>>
    /\ car.histories.dt = <<0, 1, 2>>
    /\ car.histories.vx = <<1, 1, 3>>
    /\ car.step_dis = Num(R(2))
    /\ car.total_dis = Num(R(3))

(***************************************************************************)
(* Specification SpecLidar: one make_line of a LiDAR on a resting Car      *)
(* against a MAP.                                                          *)
(***************************************************************************)
LidarWalls ==
    { walls, <<>>,
      << <<<<0, 10>>, <<10, 0>>, <<20, 5>>>>, <<<<-3, -8>>, <<-3, 8>>>> >> }
LidarKwargs == [x : {0, 5, 35}, y : {0, 5}, yaw : {0, 1, 2}, vx : {6}]
LidarConfigs == { <<2, 3>>, <<4, 5>> }     \* sensor_angle_max, sensor_num
LineLens == {30, 8}

InitLidar ==
    /\ pc = "lidar_call"
    /\ car \in {CarNew(kw) : kw \in LidarKwargs}
    /\ Map \in {MAPNew(w) : w \in LidarWalls}
    /\ lidar \in {LiDARNew(cf[1], cf[2], ll) : cf \in LidarConfigs, ll \in LineLens}
    /\ reading = NoReading
    /\ GeomIdle /\ EpisodeIdle /\ TrainIdle

MakeLine ==
    /\ pc = "lidar_call"
    /\ reading' = make_line(lidar, car, Map)
    /\ pc' = "lidar_done"
    /\ UNCHANGED <<geomVars, car, Map, lidar, episodeVars, trainVars>>

NextLidar == MakeLine

SpecLidar == InitLidar /\ [][NextLidar]_vars

\* the probe segment of ray i and its crossing points with the walls
Probe(i) ==
    LET ang == lidar.sensor_angles_std[i] + car.params.yaw
        pos == car.params.pos
    IN  << <<pos[1] + Cos(ang) * lidar.line_len, pos[2] + Sin(ang) * lidar.line_len>>,
           pos >>
ProbeHits(i) ==
    LET pts == is_collision(Map, Probe(i)).points
    IN  {pts[j] : j \in 1 .. Len(pts)}
Dist2(q) ==
    LET dx == RSub(q[1], R(car.params.pos[1]))
        dy == RSub(q[2], R(car.params.pos[2]))
    IN  RAdd(RMul(dx, dx), RMul(dy, dy))

\* C7: for every ray of make_line: if its probe crosses a wall the reading
\* has hit = true, its end point is the crossing point nearest to the
\* vehicle and its distance is the distance to that point (at most
\* line_len); if it crosses no wall, hit = false, the end point is the far
\* end of the probe and the distance is line_len.  Each ray on its own, also
\* when the only crossing lies at distance line_len.
C7_ReadingPerRay ==
    (pc = "lidar_done" /\ reading.status = "ok") =>
        \A i \in 1 .. lidar.sensor_num :
            IF ProbeHits(i) # {}
            THEN /\ reading.line_reaches_wall[i]
                 /\ reading.line_end_pos[i] \in ProbeHits(i)
                 /\ \A q \in ProbeHits(i) :
                       RLe(Dist2(reading.line_end_pos[i]), Dist2(q))
                 /\ SurdSq(reading.line_distaces[i]) = Dist2(reading.line_end_pos[i])
                 /\ RLe(SurdSq(reading.line_distaces[i]),
                        R(lidar.line_len * lidar.line_len))
            ELSE /\ ~reading.line_reaches_wall[i]
                 /\ reading.line_end_pos[i] = RP(Probe(i)[1])
                 /\ reading.line_distaces[i] = Num(R(lidar.line_len))

\* C7, a second way the code departs: make_line returns a reading at all
C7_MakeLineReturns == pc = "lidar_done" => reading.status = "ok"

(***************************************************************************)
(* Specification SpecEpisode: one call of episode() on a fresh Car and     *)
(* LiDAR.  SpecEpisodeFair adds that the loop keeps running.               *)
(***************************************************************************)
MaxSteps == 2
EpisodeWalls == { walls, <<>>, << <<<<25, 3>>, <<35, 9>>>> >> }
EpisodeKwargs == [x : {x0, x0 + 1}, y : {y0}, yaw : {yaw0, yaw0 + 1}, vx : {verocity}]

InitEpisode ==
    /\ pc = "episode"
    /\ Map \in {MAPNew(w) : w \in EpisodeWalls}
    /\ max_number_of_steps \in 1 .. MaxSteps
    /\ model \in {WideModel, NarrowModel}
    /\ car \in {CarNew(kw) : kw \in EpisodeKwargs}
    /\ lidar = LiDARNew(sensor_angle_max_default, sensor_num, line_len_default)
    /\ reading = NoReading
    /\ epi = EpisodeNew(max_number_of_steps)
    /\ GeomIdle /\ TrainIdle

\* one iteration of "while done == False"
EpisodeStep ==
    /\ pc = "episode"
    /\ ~epi.done
    /\ \E rd \in {make_line(lidar, car, Map)} :
       \E output \in model : \E k \in Support(output) :
          \E r \in {episode_step(epi, car, lidar, Map, rd, output, k,
                                max_number_of_steps)} :
              /\ pc' = IF r.status = "ok" THEN "episode" ELSE "error"
              /\ car' = r.car
              /\ epi' = r.epi
    /\ UNCHANGED <<geomVars, Map, lidarVars, model, max_number_of_steps, trainVars>>

\* the loop ends and episode() returns
EpisodeReturn ==
    /\ pc = "episode"
    /\ epi.done
    /\ train = NoTrain
    /\ pc' = "returned"
    /\ UNCHANGED <<geomVars, car, Map, lidarVars, episodeVars, trainVars>>

NextEpisode == EpisodeStep \/ EpisodeReturn

SpecEpisode == InitEpisode /\ [][NextEpisode]_vars
SpecEpisodeFair == SpecEpisode /\ WF_vars(NextEpisode)

\* the last displacement of the vehicle crosses some wall
DposCrosses == \E i \in 1 .. Len(Map) : crossing(Map[i], car.dpos).flag
LastRecord == epi.experiences[Len(epi.experiences)]

\* C1: for any max_number_of_steps >= 1 a rollout against a map with no
\* wall segments always terminates, never by collision: it ends by timeout
\* with exactly max_number_of_steps records and returns that step count.
C1_NoWallsTimeout ==
    /\ [](Map = <<>> => pc # "error")
    /\ []((Map = <<>> /\ pc = "returned") =>
            /\ max_number_of_steps >= 1
            /\ Len(epi.experiences) = max_number_of_steps
            /\ epi.step = max_number_of_steps
            /\ \A i \in 1 .. Len(epi.experiences) :
                  /\ epi.experiences[i].done <=> (i = max_number_of_steps)
                  /\ epi.experiences[i].reward
                        = distance(RP(car.histories.pos[i]),
                                   RP(car.histories.pos[i + 1])))
    /\ ((Map = <<>> /\ pc = "episode") ~> (pc = "returned"))

\* C1 witness: a rollout without walls has returned after its two steps
C1_Witness ==
    /\ Map = <<>>
    /\ pc = "returned"
    /\ max_number_of_steps = 2
    /\ Len(epi.experiences) = 2
    /\ epi.experiences[2].reward # Num(R(collision_reward))

\* C2: in every step, if car.dpos crosses a wall the recorded reward is the
\* collision reward 0 and the episode is done at that step; if the episode
\* is done only because the step budget is reached, the recorded reward is
\* car.step_dis.  When both coincide the reward is the collision reward.
C2_RewardOnTermination ==
    (pc \in {"episode", "returned"} /\ epi.step >= 1) =>
        /\ DposCrosses =>
              /\ LastRecord.reward = Num(R(collision_reward))
              /\ epi.reward_list[epi.step] = F32Int(collision_reward)
              /\ LastRecord.done /\ epi.done
        /\ ~DposCrosses =>
              /\ LastRecord.reward = car.step_dis
              /\ epi.reward_list[epi.step] = F32Of(RatOf(car.step_dis))
              /\ LastRecord.done = epi.done
              /\ epi.done <=> (Len(epi.experiences) = max_number_of_steps)

\* C2 witness: a collision on the last permitted step of a moving vehicle
C2_Witness ==
    /\ pc = "returned"
    /\ DposCrosses
    /\ epi.step = max_number_of_steps
    /\ epi.step = 2
    /\ car.step_dis # Num(R(0))
    /\ LastRecord.reward = Num(R(collision_reward))

(***************************************************************************)
(* Specification SpecPolicy: update_policy() applied once, with a new      *)
(* optimizer, to batches of padded rows as episode() returns them.         *)
(***************************************************************************)
MaxBatch == 2        \* episodes in a batch
MaxRow == 6          \* the step budget: the length of a padded row

\* a row of length n: the given values, then NaN
Padded(vals, n) == [t \in 1 .. n |-> IF t <= Len(vals) THEN vals[t] ELSE NaN]

Lengths == {1, 2, MaxRow}
RewardVals == {F32Of(<<3, 5>>), F32Int(6)}
\* the rewards of an episode of L steps: the same progress at every step,
\* or progress and then the collision reward at the last step
RewardRows(L) ==
    {[t \in 1 .. L |-> c] : c \in RewardVals}
        \cup {[t \in 1 .. L |-> IF t = L THEN F32Int(collision_reward)
                                ELSE F32Of(<<3, 5>>)]}
\* the probabilities of the actions taken
PolicyRows(L) ==
    {[t \in 1 .. L |-> F32Of(<<1, 2>>)],
     [t \in 1 .. L |-> IF t % 2 = 1 THEN F32Of(<<1, 4>>) ELSE F32Of(<<3, 4>>)]}
EpisodeResults ==
    UNION {[step : {L}, reward_list : RewardRows(L), pi_list : PolicyRows(L)]
              : L \in Lengths}

InitPolicy ==
    /\ pc = "update_policy"
    /\ \E M \in 1 .. MaxBatch : \E b \in [1 .. M -> EpisodeResults] :
          train = [exists |-> TRUE, epoch |-> 0, extra |-> TRUE,
                   rewards |-> [m \in 1 .. M |-> Padded(b[m].reward_list, MaxRow)],
                   policies |-> [m \in 1 .. M |-> Padded(b[m].pi_list, MaxRow)],
                   steps |-> [m \in 1 .. M |-> b[m].step]]
    /\ opt = OptNew
    /\ upd = NoUpd
    /\ car = NoCar /\ Map = <<>>
    /\ GeomIdle /\ LidarIdle /\ EpisodeIdle

CallUpdatePolicy ==
    /\ pc = "update_policy"
    /\ \E r \in {update_policy(train.rewards, train.policies, train.steps, opt)} :
          /\ upd' = r.upd
          /\ opt' = r.opt
    /\ pc' = "updated"
    /\ UNCHANGED <<geomVars, car, Map, lidarVars, episodeVars, train>>

NextPolicy == CallUpdatePolicy

SpecPolicy == InitPolicy /\ [][NextPolicy]_vars

\* the real (not padded) positions of the batch
RealSteps == {<<m, t>> \in (1 .. Len(train.steps)) \X (1 .. MaxRow) : t <= train.steps[m]}
\* every real step of the batch has the reward c
ConstBatch(c) == \A p \in RealSteps : train.rewards[p[1]][p[2]] = c

\* C4: the one optimizer step of update_policy ascends J (what is handed to
\* the minimizing optimizer is -J): every parameter moves in the direction
\* in which J grows, some parameter moves when the gradient is not zero, and
\* the accumulated gradients are reset afterwards.
C4_StepAscendsJ ==
    pc = "updated" =>
        /\ opt.nsteps = 1
        /\ opt.grad = Cleared
        /\ \A p \in RealSteps :
              F32Sign(upd.grad[p[1]][p[2]]) * upd.move[p[1]][p[2]] >= 0
        /\ (\E p \in RealSteps : F32Sign(upd.grad[p[1]][p[2]]) # 0) =>
              \E p \in RealSteps :
                  F32Sign(upd.grad[p[1]][p[2]]) * upd.move[p[1]][p[2]] > 0

\* |a| <= k * 2^-24 * |c|, for float32 a and c, c not zero
WithinUlps(a, k, c) ==
    \/ a[1] = 0
    \/ LET sh == a[2] - c[2] + 24
       IN  /\ sh <= 6
           /\ IF sh >= 0 THEN Abs(a[1]) * 2 ^ sh <= k * Abs(c[1])
              ELSE sh <= -3 \/ Abs(a[1]) <= k * Abs(c[1]) * 2 ^ (-sh)

\* C5 as stated: if every real step of every episode of the batch has the
\* same reward c, the baseline equals c, the advantage term is exactly zero
\* at every real step, and J is zero.
C5_AdvantageExactlyZero ==
    pc = "updated" =>
        \A c \in RewardVals :
            ConstBatch(c) =>
                /\ upd.reward_ave = c
                /\ \A p \in RealSteps :
                      /\ upd.adv[p[1]][p[2]] = F32Zero
                      /\ upd.Jmt[p[1]][p[2]] = F32Zero
                /\ upd.J = F32Zero

\* C5 as amended: with the same reward c at every real step, the baseline
\* and every advantage factor are zero up to the rounding of the float32
\* sums, by at most (longest episode + batch size + 1) * 2^-24 * |c|; when
\* the baseline comes out as c, every advantage term and J are exactly zero.
C5_ZeroUpToRounding ==
    pc = "updated" =>
        \A c \in RewardVals :
            ConstBatch(c) =>
                LET k == MaxRow + Len(train.steps) + 1
                IN  /\ WithinUlps(F32Sub(upd.reward_ave, c), k, c)
                    /\ \A p \in RealSteps :
                          WithinUlps(upd.adv[p[1]][p[2]], k, c)
                    /\ upd.reward_ave = c =>
                          /\ \A p \in RealSteps :
                                /\ upd.adv[p[1]][p[2]] = F32Zero
                                /\ upd.Jmt[p[1]][p[2]] = F32Zero
                          /\ upd.J = F32Zero

\* C5 witness: a batch of two episodes with the same reward at every step,
\* one of them of full length, whose baseline is rounded away from it
C5_Witness ==
    /\ pc = "updated"
    /\ Len(train.steps) = 2
    /\ \E c \in RewardVals : ConstBatch(c) /\ upd.reward_ave # c
    /\ \E m \in 1 .. 2 : train.steps[m] = MaxRow
    /\ \E p \in RealSteps : upd.Jmt[p[1]][p[2]] # F32Zero

(***************************************************************************)
(* Specification SpecTrain: the training loop of the script.  The lists    *)
(* kept only for printing and plotting (experiences, car_list, reward_list,*)
(* mean_reward_list) are left out.                                         *)
(***************************************************************************)
epochs == 2
num_episode == 2
\* what random.random() adds to x0 and to yaw0, in whole units of the grid
JitterSet == {0, 1}
\* a policy that turns left at every step, with or without accelerating
TurnModel == { MixDist(1, <<1, 4>>, 2, <<3, 4>>) }

TrainNew ==
    [exists |-> TRUE, epoch |-> 0, extra |-> FALSE,
     rewards |-> <<>>, policies |-> <<>>, steps |-> <<>>]

InitTrain ==
    /\ pc = "batch"
    /\ Map = MAPNew(walls)
    /\ max_number_of_steps = MaxSteps
    /\ model = TurnModel
    /\ train = TrainNew
    /\ opt = OptNew
    /\ upd = NoUpd
    /\ car = NoCar
    /\ epi = NoEpisode
    /\ GeomIdle /\ LidarIdle

\* the body of "for m in range(num_episode)" up to the call of episode()
StartEpisode ==
    /\ pc = "batch"
    /\ Len(train.steps) < num_episode
    /\ \E j \in JitterSet :
          car' = CarNew([x |-> x0 + j, y |-> y0, yaw |-> yaw0 + j, vx |-> verocity])
    /\ lidar' = LiDARNew(sensor_angle_max_default, sensor_num, line_len_default)
    /\ epi' = EpisodeNew(max_number_of_steps)
    /\ pc' = "episode"
    /\ UNCHANGED <<geomVars, Map, reading, model, max_number_of_steps, trainVars>>

\* episode() returns inside the loop and its rows are also handed to
\* update_policy at once
CollectEpisodeAndUpdate ==
    /\ pc = "episode"
    /\ epi.done
    /\ train # NoTrain /\ ~train.extra
    /\ train' = [train EXCEPT !.policies = Append(@, epi.pi_list),
                              !.rewards = Append(@, epi.reward_list),
                              !.steps = Append(@, epi.step)]
    /\ \E r \in {update_policy(train'.rewards, train'.policies, train'.steps, opt)} :
          upd' = r.upd /\ opt' = r.opt
    /\ pc' = IF Len(train'.steps) < num_episode THEN "batch" ELSE "extra"
    /\ UNCHANGED <<geomVars, car, Map, lidarVars, episodeVars>>

\* episode() returns inside the loop: its rows and its length join the batch
CollectEpisode ==
    /\ pc = "episode"
    /\ epi.done
    /\ train # NoTrain /\ ~train.extra
    /\ train' = [train EXCEPT !.policies = Append(@, epi.pi_list),
                              !.rewards = Append(@, epi.reward_list),
                              !.steps = Append(@, epi.step)]
    /\ pc' = IF Len(train'.steps) < num_episode THEN "batch" ELSE "extra"
    /\ UNCHANGED <<geomVars, car, Map, lidarVars, episodeVars, opt, upd>>

\* after the loop: one more Car and LiDAR from the last x, y, yaw, and one
\* more episode, which joins no batch
StartExtra ==
    /\ pc = "extra"
    /\ car' = CarNew([x |-> car.histories.x[1], y |-> car.histories.y[1],
                      yaw |-> car.histories.yaw[1], vx |-> verocity])
    /\ lidar' = LiDARNew(sensor_angle_max_default, sensor_num, line_len_default)
    /\ epi' = EpisodeNew(max_number_of_steps)
    /\ train' = [train EXCEPT !.extra = TRUE]
    /\ pc' = "episode"
    /\ UNCHANGED <<geomVars, Map, reading, model, max_number_of_steps, opt, upd>>

\* that episode returns
ExtraReturn ==
    /\ pc = "episode"
    /\ epi.done
    /\ train # NoTrain /\ train.extra
    /\ pc' = "update_policy"
    /\ UNCHANGED <<geomVars, car, Map, lidarVars, episodeVars, trainVars>>

\* update_policy has returned: the next epoch starts with an empty batch,
\* or the loop ends
NextEpoch ==
    /\ pc = "updated"
    /\ train' = [TrainNew EXCEPT !.epoch = train.epoch + 1]
    /\ upd' = NoUpd
    /\ pc' = IF train.epoch + 1 < epochs THEN "batch" ELSE "done"
    /\ UNCHANGED <<geomVars, car, Map, lidarVars, episodeVars, opt>>

NextTrain ==
    \/ StartEpisode \/ EpisodeStep \/ CollectEpisode
    \/ StartExtra \/ ExtraReturn
    \/ CallUpdatePolicy \/ NextEpoch

SpecTrain == InitTrain /\ [][NextTrain]_vars

\* a row that holds values at 1 .. L and NaN from L + 1 on
IsPadded(row, L) ==
    /\ Len(row) = max_number_of_steps
    /\ \A i \in 1 .. Len(row) : (row[i] = NaN) <=> (i > L)
\* the sum of the first L entries of a row, in index order; no other entry
\* is looked at
RECURSIVE SumFirst(_, _)
SumFirst(row, L) == IF L = 0 THEN F32Zero ELSE F32Add(SumFirst(row, L - 1), row[L])
\* the mean over the episodes of (sum of the real entries / length)
RealMean(t) ==
    LET rowMeans == [m \in 1 .. Len(t) |->
                        F32Div(SumFirst(t[m], train.steps[m]), F32Int(train.steps[m]))]
    IN  F32Div(SumFirst(rowMeans, Len(t)), F32Int(Len(t)))

\* C3: padding invariant.  For every episode that episode() returns, with
\* length L (the returned step), the entries 0 .. L-1 of its reward row and
\* of its probability row are real values and the entries from L on are NaN;
\* L never exceeds max_number_of_steps; and the NaN entries are left out of
\* every sum and mean of update_policy.
C3_PaddingInvariant ==
    /\ (pc = "episode" /\ epi.done) =>
          /\ epi.step <= max_number_of_steps
          /\ IsPadded(epi.reward_list, epi.step)
          /\ IsPadded(epi.pi_list, epi.step)
    /\ \A m \in 1 .. Len(train.steps) :
          /\ train.steps[m] <= max_number_of_steps
          /\ IsPadded(train.rewards[m], train.steps[m])
          /\ IsPadded(train.policies[m], train.steps[m])
    /\ pc = "updated" =>
          /\ upd.reward_ave = RealMean(train.rewards)
          /\ \A m \in 1 .. Len(train.steps) : IsPadded(upd.Jmt[m], train.steps[m])
          /\ upd.J = RealMean(upd.Jmt)

\* C3 witness: update_policy has run on a batch with a padded row and a
\* full row, and J is not zero
C3_Witness ==
    /\ pc = "updated"
    /\ \E m \in 1 .. Len(train.steps) : train.steps[m] < max_number_of_steps
    /\ \E m \in 1 .. Len(train.steps) : train.steps[m] = max_number_of_steps
    /\ upd.J # F32Zero

\* a Car as Car.__init__ leaves it
IsFreshCar(c) ==
    /\ c.exists /\ ~c.moved
    /\ \A f \in DOMAIN c.histories : Len(c.histories[f]) <= 1
    /\ c.params.time = 0
    /\ c.total_dis = Num(R(0))

\* C10: the training loop is strictly sequential.  In each epoch exactly
\* num_episode rollouts join the batch, each on a new Car and LiDAR and each
\* run to DONE before the next starts; update_policy is called once per
\* epoch, after all batch episodes of the epoch, on exactly num_episode
\* reward rows, probability rows and lengths; no optimizer step happens
\* during an episode.
C10_SequentialTraining ==
    /\ [](pc \in {"update_policy", "updated"} =>
            /\ Len(train.rewards) = num_episode
            /\ Len(train.policies) = num_episode
            /\ Len(train.steps) = num_episode
            /\ epi.done)
    /\ [](Len(train.steps) <= num_episode)
    /\ [](opt.nsteps = train.epoch + (IF pc = "updated" THEN 1 ELSE 0))
    /\ [][opt' # opt =>
            /\ pc = "update_policy" /\ pc' = "updated"
            /\ opt'.nsteps = opt.nsteps + 1
            /\ Len(train.steps) = num_episode
            /\ train' = train]_vars
    /\ [][(pc # "episode" /\ pc' = "episode") =>
            /\ epi = NoEpisode \/ epi.done
            /\ IsFreshCar(car')
            /\ lidar' = LiDARNew(sensor_angle_max_default, sensor_num,
                                 line_len_default)
            /\ epi' = EpisodeNew(max_number_of_steps)]_vars
    /\ [][(pc = "episode" /\ pc' \notin {"episode", "error"}) => epi.done]_vars
    /\ [][(pc = "episode" /\ pc' = "episode") => ~epi.done /\ train' = train]_vars
    /\ [][(train'.steps # train.steps /\ train'.epoch = train.epoch) =>
            /\ pc = "episode" /\ epi.done
            /\ train'.steps = Append(train.steps, epi.step)
            /\ train'.rewards = Append(train.rewards, epi.reward_list)
            /\ train'.policies = Append(train.policies, epi.pi_list)]_vars

\* C10 witness: the second epoch's update has run on its full batch
C10_Witness ==
    /\ pc = "updated"
    /\ train.epoch = 1
    /\ opt.nsteps = 2
    /\ Len(train.steps) = num_episode

=============================================================================
